---- MODULE Spec2Model ----
(***************************************************************************)
(* Model of scoring_api (src/src/api.py): the declarative field            *)
(* descriptors (Field.__set__ and the kind-specific validate predicates),  *)
(* schema construction (Request.__init__), check_auth and method_handler.  *)
(*                                                                         *)
(* JSON values are records [t, s, l, d]:                                   *)
(*   t  the Python type: "none", "str", "int", "bool", "list", "dict"      *)
(*   s  the characters of a str; the decimal numeral of an int; the        *)
(*      numeral <<"1">> / <<"0">> of True / False                          *)
(*   l  the items of a list                                                *)
(*   d  the key -> value map of a dict                                     *)
(* Characters are one-character strings; Surrogate stands for a lone       *)
(* surrogate code point (json.loads yields one for "\ud800").              *)
(***************************************************************************)
EXTENDS Integers, Sequences, FiniteSets, TLC

\* ------------------------------------------------------------------------
\* Program constants (api.py:15-22)
\* ------------------------------------------------------------------------
SALT == <<"O", "t", "u", "s">>
ADMIN_LOGIN == <<"a", "d", "m", "i", "n">>
ADMIN_SALT == <<"4", "2">>
OK == 200
FORBIDDEN == 403
NOT_FOUND == 404
INVALID_REQUEST == 422
ONLINE_SCORE == <<"o", "n", "l", "i", "n", "e", "_", "s", "c", "o", "r", "e">>
CLIENTS_INTERESTS == <<"c", "l", "i", "e", "n", "t", "s", "_", "i", "n", "t", "e", "r", "e", "s", "t", "s">>
AdminScore == 42
MaxAge == 70
PhoneLen == 11

\* ------------------------------------------------------------------------
\* Bounds of the model
\* ------------------------------------------------------------------------
MaxIds == 2        \* longest client_ids list that is enumerated
MaxId == 1         \* client ids are drawn from 0..MaxId

\* ------------------------------------------------------------------------
\* Python values
\* ------------------------------------------------------------------------
Surrogate == "<U+D800>"

NoneV == [t |-> "none", s |-> <<>>, l |-> <<>>, d |-> <<>>]
StrV(chars) == [t |-> "str", s |-> chars, l |-> <<>>, d |-> <<>>]
IntV(numeral) == [t |-> "int", s |-> numeral, l |-> <<>>, d |-> <<>>]
BoolV(b) == [t |-> "bool", s |-> IF b THEN <<"1">> ELSE <<"0">>, l |-> <<>>, d |-> <<>>]
ListV(items) == [t |-> "list", s |-> <<>>, l |-> items, d |-> <<>>]
DictV(map) == [t |-> "dict", s |-> <<>>, l |-> <<>>, d |-> map]

IsNumber(v) == v.t \in {"int", "bool"}

\* value is None
IsNone(v) == v.t = "none"

\* isinstance(value, int): bool is a subclass of int
IsInstanceInt(v) == IsNumber(v)
IsInstanceStr(v) == v.t = "str"

\* Python ==, for values without nested containers
ScalarEq(a, b) ==
    IF IsNumber(a) /\ IsNumber(b) THEN a.s = b.s
    ELSE a.t = b.t /\ a.s = b.s

\* Python == (1 == True; a list equals a list with pairwise equal items)
PyEq(a, b) ==
    IF IsNumber(a) /\ IsNumber(b) THEN a.s = b.s
    ELSE /\ a.t = b.t
         /\ a.s = b.s
         /\ Len(a.l) = Len(b.l)
         /\ \A k \in 1..Len(a.l) : ScalarEq(a.l[k], b.l[k])
         /\ DOMAIN a.d = DOMAIN b.d
         /\ \A k \in DOMAIN a.d : ScalarEq(a.d[k], b.d[k])

\* str(value) for str / int / bool
PyStr(v) ==
    IF v.t = "bool"
    THEN (IF v.s = <<"1">> THEN <<"T", "r", "u", "e">> ELSE <<"F", "a", "l", "s", "e">>)
    ELSE v.s

Digits == {"0", "1", "2", "3", "4", "5", "6", "7", "8", "9"}
DigitVal(c) ==
    CASE c = "0" -> 0 [] c = "1" -> 1 [] c = "2" -> 2 [] c = "3" -> 3
      [] c = "4" -> 4 [] c = "5" -> 5 [] c = "6" -> 6 [] c = "7" -> 7
      [] c = "8" -> 8 [] c = "9" -> 9
DigitChar(n) ==
    CASE n = 0 -> "0" [] n = 1 -> "1" [] n = 2 -> "2" [] n = 3 -> "3"
      [] n = 4 -> "4" [] n = 5 -> "5" [] n = 6 -> "6" [] n = 7 -> "7"
      [] n = 8 -> "8" [] n = 9 -> "9"

AllDigits(s) == \A k \in 1..Len(s) : s[k] \in Digits

RECURSIVE ToInt(_)
ToInt(s) == IF Len(s) = 0 THEN 0
            ELSE 10 * ToInt(SubSeq(s, 1, Len(s) - 1)) + DigitVal(s[Len(s)])

\* "%Y" of strftime: four digits
FormatYear(y) ==
    << DigitChar((y \div 1000) % 10), DigitChar((y \div 100) % 10),
       DigitChar((y \div 10) % 10), DigitChar(y % 10) >>

\* ------------------------------------------------------------------------
\* datetime.datetime.strptime(value, "%d.%m.%Y")
\* ------------------------------------------------------------------------
DotPositions(s) == {k \in 1..Len(s) : s[k] = "."}

IsLeap(y) == (y % 4 = 0 /\ y % 100 # 0) \/ y % 400 = 0
DaysInMonth(m, y) ==
    IF m = 2 THEN (IF IsLeap(y) THEN 29 ELSE 28)
    ELSE IF m \in {4, 6, 9, 11} THEN 30 ELSE 31

\* [ok, year]: ok is FALSE where strptime raises ValueError.  The directive
\* %d and %m take one or two digits, %Y exactly four; the date itself must
\* exist (datetime's constructor rejects day 31 of a 30-day month, year 0).
StrpTime(s) ==
    LET dots == DotPositions(s) IN
    IF Cardinality(dots) # 2 THEN [ok |-> FALSE, year |-> 0]
    ELSE
      LET p1 == CHOOSE k \in dots : \A j \in dots : k <= j
          p2 == CHOOSE k \in dots : \A j \in dots : k >= j
          dd == SubSeq(s, 1, p1 - 1)
          mm == SubSeq(s, p1 + 1, p2 - 1)
          yy == SubSeq(s, p2 + 1, Len(s))
      IN IF /\ Len(dd) \in {1, 2} /\ AllDigits(dd)
            /\ Len(mm) \in {1, 2} /\ AllDigits(mm)
            /\ Len(yy) = 4 /\ AllDigits(yy)
            /\ ToInt(mm) \in 1..12
            /\ ToInt(yy) >= 1
            /\ ToInt(dd) >= 1
            /\ ToInt(dd) <= DaysInMonth(ToInt(mm), ToInt(yy))
         THEN [ok |-> TRUE, year |-> ToInt(yy)]
         ELSE [ok |-> FALSE, year |-> 0]

\* ------------------------------------------------------------------------
\* Field descriptors (api.py:40-161)
\* ------------------------------------------------------------------------
Kinds == {"CharField", "ArgumentsField", "EmailField", "PhoneField",
          "DateField", "BirthDayField", "GenderField", "ClientIDsField"}

\* the empty_value default of each kind's __init__
EmptyValue(kind) ==
    CASE kind \in {"CharField", "EmailField"} -> StrV(<<>>)
      [] kind = "ArgumentsField" -> DictV(<<>>)
      [] kind = "ClientIDsField" -> ListV(<<>>)
      [] OTHER -> NoneV

Field(kind, required, nullable, name, owner) ==
    [kind |-> kind, required |-> required, nullable |-> nullable,
     empty_value |-> EmptyValue(kind), public_name |-> name, owner |-> owner]

CharField_validate(value) == IsInstanceStr(value)

ArgumentsField_validate(value) == value.t = "dict"

EmailField_validate(value) ==
    /\ CharField_validate(value)
    /\ \E k \in 1..Len(value.s) : value.s[k] = "@"

PhoneField_validate(value) ==
    /\ IsInstanceStr(value) \/ IsInstanceInt(value)
    /\ LET val == PyStr(value)
       IN /\ Len(val) >= 1 /\ val[1] = "7"
          /\ Len(val) = PhoneLen

DateField_validate(value) ==
    /\ IsInstanceStr(value)
    /\ StrpTime(value.s).ok

BirthDayField_validate(value, year) ==
    /\ DateField_validate(value)
    /\ ~ (year - StrpTime(value.s).year > MaxAge)

GenderField_validate(value) ==
    /\ IsInstanceInt(value)
    /\ \E g \in {<<"0">>, <<"1">>, <<"2">>} : PyEq(value, IntV(g))

ClientIDsField_validate(value) ==
    /\ value.t = "list"
    /\ \A k \in 1..Len(value.l) : IsInstanceInt(value.l[k])

\* self.validate(value), dispatched on the field's class; year is
\* datetime.datetime.now().year
Validate(kind, value, year) ==
    CASE kind = "CharField" -> CharField_validate(value)
      [] kind = "ArgumentsField" -> ArgumentsField_validate(value)
      [] kind = "EmailField" -> EmailField_validate(value)
      [] kind = "PhoneField" -> PhoneField_validate(value)
      [] kind = "DateField" -> DateField_validate(value)
      [] kind = "BirthDayField" -> BirthDayField_validate(value, year)
      [] kind = "GenderField" -> GenderField_validate(value)
      [] kind = "ClientIDsField" -> ClientIDsField_validate(value)

\* the two ValueError messages of Field.__set__, as their fragments
NotProvidedMsg(f) ==
    <<"Required field ", f.public_name, " in ", f.owner, " is not provided">>
NotValidMsg(f) ==
    <<"Value ", "{value}", " is not valid for field ", f.public_name, " in ", f.owner>>

Accepted(value) == [ok |-> TRUE, value |-> value, err |-> "", msg |-> <<>>]
Rejected(err, msg) == [ok |-> FALSE, value |-> NoneV, err |-> err, msg |-> msg]

\* Field.__set__ without its first test (lines 55-56): a required field
\* whose key is missing takes its empty value
Field_set_unrequired(f, value, year) ==
    LET v == IF IsNone(value) THEN f.empty_value ELSE value
    IN IF ~ f.nullable /\ PyEq(v, f.empty_value)
       THEN Rejected("empty", NotProvidedMsg(f))
       ELSE IF PyEq(v, f.empty_value)
       THEN Accepted(f.empty_value)
       ELSE IF Validate(f.kind, v, year)
       THEN Accepted(v)
       ELSE Rejected("invalid", NotValidMsg(f))

\* Field.__set__(obj, value): the value stored, or the ValueError raised.
\* err tells the raise statements apart: "missing" (line 56), "empty"
\* (line 62), "invalid" (line 72).
Field_set(f, value, year) ==
    IF f.required /\ IsNone(value)
    THEN Rejected("missing", NotProvidedMsg(f))
    ELSE LET v == IF IsNone(value) THEN f.empty_value ELSE value
         IN IF ~ f.nullable /\ PyEq(v, f.empty_value)
            THEN Rejected("empty", NotProvidedMsg(f))
            ELSE IF PyEq(v, f.empty_value)
            THEN Accepted(f.empty_value)
            ELSE IF Validate(f.kind, v, year)
            THEN Accepted(v)
            ELSE Rejected("invalid", NotValidMsg(f))

\* ------------------------------------------------------------------------
\* Schemas (api.py:163-211): the Field attributes of each Request class, in
\* the order of the class body
\* ------------------------------------------------------------------------
ClientsInterestsRequest ==
    << Field("ClientIDsField", TRUE, FALSE, "client_ids", "ClientsInterestsRequest"),
       Field("DateField", FALSE, TRUE, "date", "ClientsInterestsRequest") >>

OnlineScoreRequest ==
    << Field("CharField", FALSE, TRUE, "first_name", "OnlineScoreRequest"),
       Field("CharField", FALSE, TRUE, "last_name", "OnlineScoreRequest"),
       Field("EmailField", FALSE, TRUE, "email", "OnlineScoreRequest"),
       Field("PhoneField", FALSE, TRUE, "phone", "OnlineScoreRequest"),
       Field("BirthDayField", FALSE, TRUE, "birthday", "OnlineScoreRequest"),
       Field("GenderField", FALSE, TRUE, "gender", "OnlineScoreRequest") >>

MethodRequest ==
    << Field("CharField", FALSE, TRUE, "account", "MethodRequest"),
       Field("CharField", TRUE, TRUE, "login", "MethodRequest"),
       Field("CharField", TRUE, TRUE, "token", "MethodRequest"),
       Field("ArgumentsField", TRUE, TRUE, "arguments", "MethodRequest"),
       Field("CharField", TRUE, FALSE, "method", "MethodRequest") >>

SchemaName(schema) == schema[1].owner
FieldNames(schema) == {schema[k].public_name : k \in 1..Len(schema)}

InSeq(x, seq) == \E k \in 1..Len(seq) : seq[k] = x

\* OnlineScoreRequest.validate asking for one key of a pair instead of both
OnlineScoreRequest_validate_either(has) ==
    IF InSeq("phone", has) \/ InSeq("email", has) THEN TRUE
    ELSE IF InSeq("first_name", has) \/ InSeq("last_name", has) THEN TRUE
    ELSE IF InSeq("gender", has) \/ InSeq("birthday", has) THEN TRUE
    ELSE FALSE

\* OnlineScoreRequest.validate
OnlineScoreRequest_validate(has) ==
    IF InSeq("phone", has) /\ InSeq("email", has) THEN TRUE
    ELSE IF InSeq("first_name", has) /\ InSeq("last_name", has) THEN TRUE
    ELSE IF InSeq("gender", has) /\ InSeq("birthday", has) THEN TRUE
    ELSE FALSE

\* self.validate(): Request.validate unless the class overrides it
Request_validate(schema, has) ==
    IF SchemaName(schema) = "OnlineScoreRequest"
    THEN OnlineScoreRequest_validate(has)
    ELSE TRUE

InvalidArgsMsg(schema) ==
    <<"Invalid request arguments ", "{kwargs}", " for ", SchemaName(schema)>>

\* the body of the loop of Request.__init__: setattr(self, key, kwargs[key])
\* for a key of kwargs, setattr(self, key, None) otherwise
Request_setattr(f, kwargs, year) ==
    Field_set(f, IF f.public_name \in DOMAIN kwargs THEN kwargs[f.public_name] ELSE NoneV, year)

\* has.append(key) moved out of the "if key in kwargs" branch
HasAppend_always(has, key, present) == Append(has, key)

\* self.has.append(key), for a key of kwargs only
HasAppend(has, key, present) == IF present THEN Append(has, key) ELSE has

\* the loop of Request.__init__ from field k on: has and the attributes set
\* so far are carried along; the first ValueError of a Field.__set__ ends it
RECURSIVE BindFields(_, _, _, _, _, _)
BindFields(schema, kwargs, year, k, has, obj) ==
    IF k > Len(schema)
    THEN [exc |-> "", msg |-> <<>>, has |-> has, obj |-> obj]
    ELSE LET f == schema[k]
             key == f.public_name
             present == key \in DOMAIN kwargs
             r == Request_setattr(f, kwargs, year)
         IN IF ~ r.ok
            THEN [exc |-> "ValueError", msg |-> r.msg, has |-> has, obj |-> obj]
            ELSE BindFields(schema, kwargs, year, k + 1,
                            HasAppend(has, key, present),
                            [obj EXCEPT ![key] = r.value])

\* Cls(**kwargs) for a Request class: [exc, msg, has, obj].  exc = "" when
\* the object is constructed; "ValueError" from a field or from validate();
\* "TypeError" when kwargs holds the key "self", which collides with the
\* first parameter of __init__(self, **kwargs) before its body runs.
Request_init(schema, kwargs, year) ==
    LET blank == [n \in FieldNames(schema) |-> NoneV] IN
    IF "self" \in DOMAIN kwargs
    THEN [exc |-> "TypeError", msg |-> <<"got multiple values for argument 'self'">>,
          has |-> <<>>, obj |-> blank]
    ELSE LET b == BindFields(schema, kwargs, year, 1, <<>>, blank)
         IN IF b.exc # "" THEN b
            ELSE IF ~ Request_validate(schema, b.has)
            THEN [b EXCEPT !.exc = "ValueError", !.msg = InvalidArgsMsg(schema)]
            ELSE b

\* ------------------------------------------------------------------------
\* check_auth (api.py:214-219)
\* ------------------------------------------------------------------------
\* hashlib.sha512(msg).hexdigest() as an injective function of the message:
\* the digest of msg is msg behind a marker no request character equals
Sha512Hex(msg) == <<"#">> \o msg

\* str.encode('utf-8') raises UnicodeEncodeError, a ValueError, on a lone
\* surrogate
Encodable(chars) == \A k \in 1..Len(chars) : chars[k] # Surrogate

UnicodeMsg == <<"'utf-8' codec can't encode character ", Surrogate, ": surrogates not allowed">>

\* datetime.datetime.now().strftime("%Y%m%d%H")
HourStamp(clock) == FormatYear(clock.year) \o clock.mdh

\* is_admin reading account instead of login
is_admin_by_account(obj) == PyEq(obj["account"], StrV(ADMIN_LOGIN))

\* MethodRequest.is_admin
is_admin(obj) == PyEq(obj["login"], StrV(ADMIN_LOGIN))

\* check_auth(request): [exc, value].  Concatenating a non-str raises
\* TypeError; encoding a lone surrogate raises ValueError.
check_auth(obj, clock) ==
    IF is_admin(obj)
    THEN [exc |-> "", msg |-> <<>>,
          value |-> PyEq(StrV(Sha512Hex(HourStamp(clock) \o ADMIN_SALT)), obj["token"])]
    ELSE IF ~ (IsInstanceStr(obj["account"]) /\ IsInstanceStr(obj["login"]))
    THEN [exc |-> "TypeError", msg |-> <<"unsupported operand type(s) for +">>, value |-> FALSE]
    ELSE LET text == obj["account"].s \o obj["login"].s \o SALT
         IN IF ~ Encodable(text)
            THEN [exc |-> "ValueError", msg |-> UnicodeMsg, value |-> FALSE]
            ELSE [exc |-> "", msg |-> <<>>,
                  value |-> PyEq(StrV(Sha512Hex(text)), obj["token"])]

\* ------------------------------------------------------------------------
\* Inputs: the clocks, values and request bodies that are enumerated
\* ------------------------------------------------------------------------
Clocks == { [year |-> 2026, mdh |-> <<"1", "1", "0", "3", "0", "7">>],
            [year |-> 2071, mdh |-> <<"0", "1", "0", "1", "0", "0">>] }

GoodPhone == <<"7", "9", "1", "7", "5", "0", "0", "2", "0", "4", "0">>
BadPhone == <<"8", "9", "1", "7", "5", "0", "0", "2", "0", "4", "0">>
GoodEmail == <<"a", "@", "b">>
BadEmail == <<"a", "b">>
Born2000 == <<"0", "1", ".", "0", "1", ".", "2", "0", "0", "0">>
Born1890 == <<"0", "1", ".", "0", "1", ".", "1", "8", "9", "0">>
NotADate == <<"X", "X", "X">>

\* a dict literal: the keys of the choice c that are not "absent"
Absent == [t |-> "absent", s |-> <<>>, l |-> <<>>, d |-> <<>>]
MakeDict(c) == [k \in {x \in DOMAIN c : c[x].t # "absent"} |-> c[k]]

ScoreArgs ==
    { MakeDict(c) : c \in
        [ first_name : {Absent, StrV(<<"a">>), IntV(<<"1">>)},
          last_name : {Absent, StrV(<<"b">>), StrV(<<>>)},
          email : {Absent, StrV(GoodEmail), StrV(BadEmail), NoneV},
          phone : {Absent, StrV(GoodPhone), IntV(GoodPhone), StrV(BadPhone)},
          birthday : {Absent, StrV(Born2000), StrV(Born1890), StrV(NotADate)},
          gender : {Absent, IntV(<<"1">>), BoolV(TRUE), StrV(<<"1">>)} ] }

\* arguments with a key no schema declares
ExtraArgs ==
    { MakeDict([extra |-> IntV(<<"1">>), first_name |-> StrV(<<"a">>), last_name |-> f]) :
        f \in {Absent, StrV(<<"b">>)} }

IdItems == {IntV(<<DigitChar(n)>>) : n \in 0..MaxId} \cup {BoolV(TRUE), StrV(<<"1">>)}

RECURSIVE ListsUpTo(_)
ListsUpTo(n) ==
    IF n = 0 THEN {<<>>}
    ELSE LET shorter == ListsUpTo(n - 1)
         IN shorter \cup {Append(l, x) : l \in {y \in shorter : Len(y) = n - 1}, x \in IdItems}

InterestsArgs ==
    { MakeDict(c) : c \in
        [ client_ids : {Absent, NoneV, IntV(<<"1">>)} \cup {ListV(l) : l \in ListsUpTo(MaxIds)},
          date : {Absent, NoneV, StrV(Born2000), StrV(NotADate), StrV(<<>>)} ] }

SelfArgs == { MakeDict([self |-> IntV(<<"1">>), phone |-> StrV(GoodPhone), email |-> StrV(GoodEmail)]) }

FewArgs == { Absent, NoneV, DictV(<<>>), ListV(<<IntV(<<"1">>)>>),
             DictV(MakeDict([phone |-> StrV(GoodPhone), email |-> StrV(GoodEmail)])),
             DictV(MakeDict([client_ids |-> ListV(<<IntV(<<"1">>)>>)])) }
           \cup {DictV(a) : a \in SelfArgs}

UserDigest(account, login) ==
    Sha512Hex((IF account.t = "str" THEN account.s ELSE <<>>)
              \o (IF login.t = "str" THEN login.s ELSE <<>>) \o SALT)
AdminDigest(clock) == Sha512Hex(HourStamp(clock) \o ADMIN_SALT)

\* the token set_valid_auth of tests/conftest.py gives an envelope
ValidToken(account, login, clock) ==
    IF login = StrV(ADMIN_LOGIN) THEN StrV(AdminDigest(clock))
    ELSE StrV(UserDigest(account, login))

Tokens(account, login, clock) ==
    { Absent, NoneV, StrV(<<>>), StrV(<<"x">>), IntV(<<"5">>),
      StrV(UserDigest(account, login)), StrV(AdminDigest(clock)) }

Accounts == {Absent, NoneV, StrV(<<>>), StrV(<<"h">>), StrV(<<Surrogate>>), IntV(<<"5">>)}
Logins == {Absent, NoneV, StrV(<<>>), StrV(<<"h">>), StrV(ADMIN_LOGIN), IntV(<<"5">>)}
Methods == {Absent, NoneV, StrV(<<>>), StrV(ONLINE_SCORE),
            StrV(CLIENTS_INTERESTS), StrV(<<"z">>), IntV(<<"5">>)}

\* every combination of envelope fields, with a few arguments
EnvelopeBodies(clock) ==
    UNION { { MakeDict([account |-> al[1], login |-> al[2], token |-> t,
                        method |-> m, arguments |-> g]) :
                t \in Tokens(al[1], al[2], clock), m \in Methods, g \in FewArgs } :
            al \in Accounts \X Logins }

\* correctly signed envelopes with every combination of method arguments
SignedBodies(clock) ==
    { MakeDict([account |-> StrV(<<"h">>), login |-> l, token |-> ValidToken(StrV(<<"h">>), l, clock),
                method |-> m, arguments |-> DictV(g)]) :
        l \in {StrV(<<"h">>), StrV(ADMIN_LOGIN)},
        m \in {StrV(ONLINE_SCORE), StrV(CLIENTS_INTERESTS)},
        g \in ScoreArgs \cup ExtraArgs \cup InterestsArgs \cup SelfArgs }

\* a body whose key "self" collides with the parameter of __init__
SelfBodies == { MakeDict([self |-> IntV(<<"1">>)]) }

Bodies(clock) == EnvelopeBodies(clock) \cup SignedBodies(clock) \cup SelfBodies

\* ------------------------------------------------------------------------
\* State
\* ------------------------------------------------------------------------
VARIABLES
    now,        \* the clock read by datetime.datetime.now()
    pc,         \* position: "idle", then inside method_handler "construct",
                \* "auth", "dispatch", "score", "interests"; "done" once it
                \* returned, "raised" once an exception left it; "field" and
                \* "authed" after a standalone Field / check_auth call
    request,    \* the request passed to method_handler
    method,     \* the MethodRequest built from the body: [obj, has]
    args,       \* the argument schema object built by the handler: [obj, has]
    ctx,        \* the call context dict
    out,        \* the dict the clients_interests loop fills
    idx,        \* position of that loop in client_ids
    calls,      \* the external operations invoked so far, in order
    response,   \* the body returned
    code,       \* the status returned (0 before the return)
    raised,     \* the exception that left method_handler ("" if none)
    bound,      \* the last standalone Field.__set__: its field, input, result
    authed      \* the last standalone check_auth: its envelope and result

vars == <<now, pc, request, method, args, ctx, out, idx, calls, response, code,
          raised, bound, authed>>

NoObject == [obj |-> <<>>, has |-> <<>>]
NoResponse == [kind |-> "none", error |-> <<>>, score |-> 0, out |-> <<>>]
ErrorBody(msg) == [kind |-> "error", error |-> msg, score |-> 0, out |-> <<>>]
ScoreBody(n) == [kind |-> "score", error |-> <<>>, score |-> n, out |-> <<>>]
InterestsBody(o) == [kind |-> "interests", error |-> <<>>, score |-> 0, out |-> o]
NoBound == [field |-> Field("CharField", FALSE, FALSE, "x", "X"), present |-> FALSE,
            value |-> NoneV, result |-> Accepted(NoneV)]
NoAuthed == [obj |-> <<>>, exc |-> "", value |-> FALSE, tampered |-> ""]

Init ==
    /\ now \in Clocks
    /\ pc = "idle"
    /\ request = <<>>
    /\ method = NoObject
    /\ args = NoObject
    /\ ctx = <<>>
    /\ out = <<>>
    /\ idx = 0
    /\ calls = <<>>
    /\ response = NoResponse
    /\ code = 0
    /\ raised = ""
    /\ bound = NoBound
    /\ authed = NoAuthed

\* ------------------------------------------------------------------------
\* method_handler (api.py:222-255)
\* ------------------------------------------------------------------------
Requests(clock) == {<<>>} \cup {[body |-> b] : b \in Bodies(clock)}

\* the results of the external scoring module
Scores == {0, 3}
InterestLists == {<<"books">>, <<"tv", "pets">>}

\* d[k] = v on a dict
SetItem(d, k, v) == [x \in DOMAIN d \cup {k} |-> IF x = k THEN v ELSE d[x]]

\* the key an int or bool has in a dict: 1 and True are the same key
DictKey(v) == v.s

\* "body" not in request: MethodRequest(), else MethodRequest(**request["body"])
Kwargs(req) == IF "body" \in DOMAIN req THEN req["body"] ELSE <<>>

\* the handler going on whenever check_auth did not raise
AuthPassed_unchecked(a) == a.exc = ""

\* check_auth(method) returned True
AuthPassed(a) == a.exc = "" /\ a.value

Return(body, status) ==
    /\ response' = body
    /\ code' = status
    /\ pc' = "done"
    /\ raised' = ""

Raise(exc) ==
    /\ raised' = exc
    /\ pc' = "raised"
    /\ UNCHANGED <<response, code>>

\* except ValueError as e: return {"error": str(e)}, INVALID_REQUEST; any
\* other exception leaves method_handler
Except(exc, msg) ==
    IF exc = "ValueError" THEN Return(ErrorBody(msg), INVALID_REQUEST) ELSE Raise(exc)

Receive ==
    /\ pc = "idle"
    /\ \E r \in Requests(now) : request' = r
    /\ pc' = "construct"
    /\ UNCHANGED <<now, method, args, ctx, out, idx, calls, response, code, raised,
                   bound, authed>>

\* lines 224-228
ConstructEnvelope ==
    /\ pc = "construct"
    /\ LET r == Request_init(MethodRequest, Kwargs(request), now.year)
       IN IF r.exc = ""
          THEN /\ method' = [obj |-> r.obj, has |-> r.has]
               /\ ctx' = SetItem(ctx, "has", <<>>)
               /\ pc' = "auth"
               /\ UNCHANGED <<response, code, raised>>
          ELSE /\ Except(r.exc, r.msg)
               /\ UNCHANGED <<method, ctx>>
    /\ UNCHANGED <<now, request, args, out, idx, calls, bound, authed>>

\* lines 230-232
CheckAuth ==
    /\ pc = "auth"
    /\ LET a == check_auth(method.obj, now)
       IN IF a.exc # "" THEN Except(a.exc, a.msg)
          ELSE IF ~ AuthPassed(a) THEN Return(ErrorBody(<<"Forbidden">>), FORBIDDEN)
          ELSE /\ pc' = "dispatch"
               /\ UNCHANGED <<response, code, raised>>
    /\ UNCHANGED <<now, request, method, args, ctx, out, idx, calls, bound, authed>>

IsOnlineScore(obj) == PyEq(obj["method"], StrV(ONLINE_SCORE))
IsClientsInterests(obj) == PyEq(obj["method"], StrV(CLIENTS_INTERESTS))

\* lines 234-236
OnlineScoreAdmin ==
    /\ pc = "dispatch"
    /\ IsOnlineScore(method.obj)
    /\ is_admin(method.obj)
    /\ Return(ScoreBody(AdminScore), OK)
    /\ UNCHANGED <<now, request, method, args, ctx, out, idx, calls, bound, authed>>

\* lines 237-238
OnlineScore ==
    /\ pc = "dispatch"
    /\ IsOnlineScore(method.obj)
    /\ ~ is_admin(method.obj)
    /\ LET r == Request_init(OnlineScoreRequest, method.obj["arguments"].d, now.year)
       IN IF r.exc = ""
          THEN /\ args' = [obj |-> r.obj, has |-> r.has]
               /\ ctx' = SetItem(ctx, "has", r.has)
               /\ pc' = "score"
               /\ UNCHANGED <<response, code, raised>>
          ELSE /\ Except(r.exc, r.msg)
               /\ UNCHANGED <<args, ctx>>
    /\ UNCHANGED <<now, request, method, out, idx, calls, bound, authed>>

\* lines 239-241
CallScore ==
    /\ pc = "score"
    /\ calls' = Append(calls, [op |-> "get_score",
                               args |-> << args.obj["phone"], args.obj["email"],
                                           args.obj["birthday"], args.obj["gender"],
                                           args.obj["first_name"], args.obj["last_name"] >>])
    /\ \E score \in Scores : Return(ScoreBody(score), OK)
    /\ UNCHANGED <<now, request, method, args, ctx, out, idx, bound, authed>>

\* nclients taken from the ids that differ
NClients_distinct(obj) == Cardinality({obj["client_ids"].l[k].s : k \in 1..Len(obj["client_ids"].l)})

\* len(clients_interests.client_ids)
NClients(obj) == Len(obj["client_ids"].l)

\* lines 242-246
ClientsInterests ==
    /\ pc = "dispatch"
    /\ ~ IsOnlineScore(method.obj)
    /\ IsClientsInterests(method.obj)
    /\ LET r == Request_init(ClientsInterestsRequest, method.obj["arguments"].d, now.year)
       IN IF r.exc = ""
          THEN /\ args' = [obj |-> r.obj, has |-> r.has]
               /\ ctx' = SetItem(SetItem(ctx, "has", r.has),
                                 "nclients", NClients(r.obj))
               /\ out' = <<>>
               /\ idx' = 1
               /\ pc' = "interests"
               /\ UNCHANGED <<response, code, raised>>
          ELSE /\ Except(r.exc, r.msg)
               /\ UNCHANGED <<args, ctx, out, idx>>
    /\ UNCHANGED <<now, request, method, calls, bound, authed>>

\* lines 247-248: one turn of the loop
CallInterests ==
    /\ pc = "interests"
    /\ idx <= Len(args.obj["client_ids"].l)
    /\ LET client_id == args.obj["client_ids"].l[idx]
       IN /\ calls' = Append(calls, [op |-> "get_interests", args |-> <<client_id>>])
          /\ \E interests \in InterestLists : out' = SetItem(out, DictKey(client_id), interests)
    /\ idx' = idx + 1
    /\ UNCHANGED <<now, pc, request, method, args, ctx, response, code, raised, bound, authed>>

\* line 249
ReturnInterests ==
    /\ pc = "interests"
    /\ idx > Len(args.obj["client_ids"].l)
    /\ Return(InterestsBody(out), OK)
    /\ UNCHANGED <<now, request, method, args, ctx, out, idx, calls, bound, authed>>

\* lines 250-252
MethodNotFound ==
    /\ pc = "dispatch"
    /\ ~ IsOnlineScore(method.obj)
    /\ ~ IsClientsInterests(method.obj)
    /\ Return(ErrorBody(<<"Method not found">>), NOT_FOUND)
    /\ UNCHANGED <<now, request, method, args, ctx, out, idx, calls, bound, authed>>

\* ------------------------------------------------------------------------
\* A Field bound on its own: a one-field Request class and its kwargs
\* ------------------------------------------------------------------------
\* for each kind, the raw inputs of interest besides an absent key and null:
\* the kind's empty value, values validate accepts and values it rejects
FieldValues(kind) ==
    {EmptyValue(kind)} \cup
    CASE kind = "CharField" -> {StrV(<<"a">>), IntV(<<"1">>)}
      [] kind = "ArgumentsField" -> {DictV(MakeDict([phone |-> StrV(GoodPhone)])), ListV(<<>>)}
      [] kind = "EmailField" -> {StrV(GoodEmail), StrV(BadEmail), IntV(<<"1">>)}
      [] kind = "PhoneField" -> {StrV(GoodPhone), IntV(GoodPhone), StrV(BadPhone),
                                 StrV(<<>>), BoolV(TRUE)}
      [] kind = "DateField" -> {StrV(Born1890), StrV(NotADate), StrV(<<>>)}
      [] kind = "BirthDayField" -> {StrV(Born2000), StrV(Born1890), StrV(NotADate)}
      [] kind = "GenderField" -> {IntV(<<"0">>), IntV(<<"2">>), BoolV(TRUE),
                                  IntV(<<"3">>), StrV(<<"1">>)}
      [] kind = "ClientIDsField" -> {ListV(<<IntV(<<"1">>)>>), ListV(<<StrV(<<"1">>)>>),
                                     IntV(<<"1">>)}

SetField ==
    /\ pc = "idle"
    /\ \E kind \in Kinds, required \in BOOLEAN, nullable \in BOOLEAN :
         \E raw \in {Absent, NoneV} \cup FieldValues(kind) :
           LET f == Field(kind, required, nullable, "x", "X")
               kwargs == MakeDict([x |-> raw])
           IN bound' = [field |-> f, present |-> "x" \in DOMAIN kwargs, value |-> raw,
                        result |-> Request_setattr(f, kwargs, now.year)]
    /\ pc' = "field"
    /\ UNCHANGED <<now, request, method, args, ctx, out, idx, calls, response, code,
                   raised, authed>>

\* ------------------------------------------------------------------------
\* check_auth called on its own, on a constructed MethodRequest, and called
\* again on the same envelope with one character replaced
\* ------------------------------------------------------------------------
AuthBodies(clock) ==
    UNION { { MakeDict([account |-> al[1], login |-> al[2], token |-> t,
                        method |-> StrV(ONLINE_SCORE), arguments |-> DictV(<<>>)]) :
                t \in {StrV(UserDigest(al[1], al[2])), StrV(AdminDigest(clock)),
                       StrV(<<"x">>), StrV(<<>>)} } :
            al \in {Absent, StrV(<<"h">>), StrV(<<Surrogate>>)}
                   \X {StrV(<<"h">>), StrV(ADMIN_LOGIN), StrV(<<"b", "d", "m", "i", "n">>)} }

TamperChars == {"a", "b", "x"}

Authenticate ==
    /\ pc = "idle"
    /\ \E body \in AuthBodies(now) :
         LET r == Request_init(MethodRequest, body, now.year)
             a == check_auth(r.obj, now)
         IN /\ r.exc = ""
            /\ authed' = [obj |-> r.obj, exc |-> a.exc, value |-> a.value, tampered |-> ""]
    /\ pc' = "authed"
    /\ UNCHANGED <<now, request, method, args, ctx, out, idx, calls, response, code,
                   raised, bound>>

ReplaceChar(chars, i, c) == [chars EXCEPT ![i] = c]

Tamper ==
    /\ pc = "authed"
    /\ authed.exc = "" /\ authed.value
    /\ \E f \in {"account", "login", "token"} :
         \E i \in 1..Len(authed.obj[f].s) :
           \E c \in TamperChars \ {authed.obj[f].s[i]} :
             LET obj == [authed.obj EXCEPT ![f] = StrV(ReplaceChar(authed.obj[f].s, i, c))]
                 a == check_auth(obj, now)
             IN authed' = [obj |-> obj, exc |-> a.exc, value |-> a.value, tampered |-> f]
    /\ pc' = "tampered"
    /\ UNCHANGED <<now, request, method, args, ctx, out, idx, calls, response, code,
                   raised, bound>>

Next ==
    \/ Receive
    \/ ConstructEnvelope
    \/ CheckAuth
    \/ OnlineScoreAdmin
    \/ OnlineScore
    \/ CallScore
    \/ ClientsInterests
    \/ CallInterests
    \/ ReturnInterests
    \/ MethodNotFound
    \/ SetField
    \/ Authenticate
    \/ Tamper

Spec == Init /\ [][Next]_vars

\* ------------------------------------------------------------------------
\* What the properties read off a request, stated on the raw JSON
\* ------------------------------------------------------------------------
HasBody == "body" \in DOMAIN request
Body == request["body"]
Handled == pc \in {"done", "raised"}

Has(map, key) == key \in DOMAIN map
IsStr(map, key) == Has(map, key) /\ map[key].t = "str"
IsText(map, key, chars) == IsStr(map, key) /\ map[key].s = chars

\* the body is accepted as a Caller Envelope: account optional text, login
\* and token text, arguments a map, method non-empty text
WellFormedEnvelope(b) ==
    /\ ~ Has(b, "self")
    /\ Has(b, "account") => b["account"].t \in {"str", "none"}
    /\ IsStr(b, "login")
    /\ IsStr(b, "token")
    /\ Has(b, "arguments") /\ b["arguments"].t = "dict"
    /\ IsStr(b, "method") /\ b["method"].s # <<>>

AccountText(b) == IF IsStr(b, "account") THEN b["account"].s ELSE <<>>

\* the digest the envelope's token is compared with
ExpectedDigest(b, clock) ==
    IF IsText(b, "login", ADMIN_LOGIN)
    THEN <<"#">> \o FormatYear(clock.year) \o clock.mdh \o <<"4", "2">>
    ELSE <<"#">> \o AccountText(b) \o b["login"].s \o <<"O", "t", "u", "s">>

TokenMatches(b, clock) == IsText(b, "token", ExpectedDigest(b, clock))

\* the envelope authenticates: well formed, the digest computable, the token
\* equal to it
Authenticated(b, clock) ==
    /\ WellFormedEnvelope(b)
    /\ IsText(b, "login", ADMIN_LOGIN) \/ (\A k \in 1..Len(AccountText(b)) : AccountText(b)[k] # Surrogate)
    /\ TokenMatches(b, clock)

Arguments(b) == b["arguments"].d

\* the raw values each Score Arguments field binds, of those enumerated
ScoreValueBinds(key, v, clock) ==
    CASE key \in {"first_name", "last_name"} -> v.t \in {"str", "none"}
      [] key = "email" -> v \in {NoneV, StrV(<<>>), StrV(GoodEmail)}
      [] key = "phone" -> v \in {NoneV, StrV(GoodPhone), IntV(GoodPhone)}
      [] key = "birthday" -> \/ v = NoneV
                             \/ v = StrV(Born2000) /\ clock.year <= 2070
      [] key = "gender" -> v \in {NoneV, IntV(<<"0">>), IntV(<<"1">>), IntV(<<"2">>),
                                   BoolV(TRUE), BoolV(FALSE)}
      [] OTHER -> TRUE

ScoreFieldsBind(a, clock) ==
    /\ ~ Has(a, "self")
    /\ \A key \in DOMAIN a : ScoreValueBinds(key, a[key], clock)

PairPresent(a) ==
    \/ Has(a, "phone") /\ Has(a, "email")
    \/ Has(a, "first_name") /\ Has(a, "last_name")
    \/ Has(a, "gender") /\ Has(a, "birthday")

SeqToSet(seq) == {seq[k] : k \in 1..Len(seq)}
NoDuplicates(seq) == Cardinality(SeqToSet(seq)) = Len(seq)

\* ------------------------------------------------------------------------
\* Properties
\* ------------------------------------------------------------------------

\* C1: the status method_handler returns is that of the first failing stage,
\* in the order envelope validation (422), auth check (403, body
\* "Forbidden"), method selection (404, body "Method not found"), argument
\* validation (422); so an envelope that validates and does not authenticate
\* gets 403 whatever its method and arguments, and 404 is returned only for
\* an authenticated envelope.
C1_StatusOfFirstFailingStage ==
    (pc = "done" /\ HasBody) =>
        LET b == Body
            known == IsText(b, "method", ONLINE_SCORE) \/ IsText(b, "method", CLIENTS_INTERESTS)
        IN /\ ~ WellFormedEnvelope(b) => code = INVALID_REQUEST
           /\ (WellFormedEnvelope(b) /\ ~ Authenticated(b, now)) =>
                 /\ code = FORBIDDEN
                 /\ response = ErrorBody(<<"Forbidden">>)
           /\ (Authenticated(b, now) /\ ~ known) =>
                 /\ code = NOT_FOUND
                 /\ response = ErrorBody(<<"Method not found">>)
           /\ (Authenticated(b, now) /\ known) => code \in {OK, INVALID_REQUEST}
           /\ code = NOT_FOUND => Authenticated(b, now)

\* the envelopes of the bad-auth fixture (tests/conftest.py:22-28) and the
\* same envelope with a forged token
C2_Fixture(b) ==
    /\ DOMAIN b \subseteq {"account", "login", "token", "method", "arguments"}
    /\ IsText(b, "account", <<"h">>)
    /\ Has(b, "login") => IsText(b, "login", <<"h">>)
    /\ Has(b, "method") => IsText(b, "method", ONLINE_SCORE)
    /\ Has(b, "arguments") => b["arguments"] = DictV(<<>>)
    /\ IF Has(b, "token")
       THEN /\ {"login", "method", "arguments"} \subseteq DOMAIN b
            /\ IsStr(b, "token") /\ ~ TokenMatches(b, now)
       ELSE Cardinality({"login", "method", "arguments"} \ DOMAIN b) <= 1

\* C2: an envelope whose token is forged or absent is answered 403: the
\* envelope {account, login, method: "online_score", arguments: {}} and the
\* token-less envelopes that also omit one of arguments, method, login.
C2_BadAuthIsForbidden ==
    (pc = "done" /\ HasBody /\ C2_Fixture(Body)) => code = FORBIDDEN

\* C3: for every body that is a JSON object no exception leaves
\* method_handler; the status is one of 200, 403, 404, 422, a validation
\* failure gives 422, and every other status than 200 comes with a body
\* {"error": m}, m a non-empty string.
C3_NoExceptionEscapes ==
    (Handled /\ HasBody) =>
        /\ pc = "done"
        /\ raised = ""
        /\ code \in {OK, FORBIDDEN, NOT_FOUND, INVALID_REQUEST}
        /\ ~ WellFormedEnvelope(Body) => code = INVALID_REQUEST
        /\ code # OK => /\ response.kind = "error"
                        /\ \E k \in 1..Len(response.error) : response.error[k] # ""

\* a validated envelope of the admin calling online_score
C4_AdminCall(b) ==
    /\ WellFormedEnvelope(b)
    /\ IsText(b, "login", ADMIN_LOGIN)
    /\ TokenMatches(b, now)
    /\ IsText(b, "method", ONLINE_SCORE)

\* C4: an envelope with the admin login, a token equal to the admin digest
\* and method "online_score" is answered ({"score": 42}, 200) whatever its
\* arguments hold, without a call of get_score.
C4_AdminScoreShortCircuit ==
    (Handled /\ HasBody /\ C4_AdminCall(Body)) =>
        /\ pc = "done"
        /\ code = OK
        /\ response = ScoreBody(42)
        /\ calls = <<>>

\* the admin is answered 42 for arguments the Score Arguments schema rejects
C4_Witness ==
    /\ pc = "done" /\ HasBody /\ C4_AdminCall(Body)
    /\ Has(Arguments(Body), "phone") /\ Arguments(Body)["phone"] = StrV(BadPhone)
    /\ ~ PairPresent(Arguments(Body))
    /\ response = ScoreBody(42)

\* an authenticated non-admin online_score call whose arguments all bind
C5_ScoreCall(b) ==
    /\ Authenticated(b, now)
    /\ ~ IsText(b, "login", ADMIN_LOGIN)
    /\ IsText(b, "method", ONLINE_SCORE)
    /\ ScoreFieldsBind(Arguments(b), now)

\* C5: an authenticated non-admin online_score call whose argument fields
\* all bind is answered 200 if phone and email, or first_name and last_name,
\* or gender and birthday are both keys of arguments, and 422 otherwise;
\* what counts is the key being there, not its value being non-empty.
C5_ScoreValidIffPairPresent ==
    (Handled /\ HasBody /\ C5_ScoreCall(Body)) =>
        /\ pc = "done"
        /\ PairPresent(Arguments(Body)) => code = OK /\ response.kind = "score"
        /\ ~ PairPresent(Arguments(Body)) => code = INVALID_REQUEST

\* a pair present by its keys alone, one of them with a null value, scores
C5_Witness ==
    /\ pc = "done" /\ HasBody /\ C5_ScoreCall(Body)
    /\ DOMAIN Arguments(Body) = {"phone", "email"}
    /\ Arguments(Body)["email"] = NoneV
    /\ code = OK

\* one key of each pair is rejected
C5_WitnessRejected ==
    /\ pc = "done" /\ HasBody /\ C5_ScoreCall(Body)
    /\ DOMAIN Arguments(Body) = {"phone", "first_name", "birthday"}
    /\ code = INVALID_REQUEST

\* the field names each schema declares
C6_Declared(name) ==
    CASE name = "MethodRequest" -> {"account", "login", "token", "arguments", "method"}
      [] name = "OnlineScoreRequest" -> {"first_name", "last_name", "email", "phone",
                                         "birthday", "gender"}
      [] name = "ClientsInterestsRequest" -> {"client_ids", "date"}

C6_HasIsInputKeys(has, kwargs, name) ==
    /\ SeqToSet(has) = DOMAIN kwargs \cap C6_Declared(name)
    /\ NoDuplicates(has)

C6_ArgsSchema == IF IsText(Body, "method", ONLINE_SCORE) THEN "OnlineScoreRequest"
                 ELSE "ClientsInterestsRequest"

\* C6: a constructed schema's has holds exactly the input keys that are
\* declared fields of the schema, each once; after a successful non-admin
\* online_score or clients_interests dispatch ctx["has"] is that set for the
\* method's argument schema.
C6_HasEqualsSuppliedKeys ==
    /\ method # NoObject => C6_HasIsInputKeys(method.has, Kwargs(request), "MethodRequest")
    /\ args # NoObject => C6_HasIsInputKeys(args.has, Arguments(Body), C6_ArgsSchema)
    /\ (pc = "done" /\ code = OK /\ args # NoObject) =>
          /\ "has" \in DOMAIN ctx
          /\ C6_HasIsInputKeys(ctx["has"], Arguments(Body), C6_ArgsSchema)

\* a successful dispatch whose arguments hold an undeclared key and leave
\* declared fields out
C6_Witness ==
    /\ pc = "done" /\ code = OK /\ args # NoObject
    /\ DOMAIN Arguments(Body) = {"extra", "first_name", "last_name"}
    /\ SeqToSet(ctx["has"]) = {"first_name", "last_name"}

\* an authenticated clients_interests call whose arguments validate
C7_InterestsCall(b) ==
    /\ Authenticated(b, now)
    /\ IsText(b, "method", CLIENTS_INTERESTS)
    /\ ~ Has(Arguments(b), "self")
    /\ Has(Arguments(b), "client_ids")
    /\ Arguments(b)["client_ids"].t = "list"
    /\ Arguments(b)["client_ids"].l # <<>>
    /\ \A k \in 1..Len(Arguments(b)["client_ids"].l) :
          Arguments(b)["client_ids"].l[k].t \in {"int", "bool"}
    /\ Has(Arguments(b), "date") => Arguments(b)["date"] \in {NoneV, StrV(Born2000)}

C7_Ids == Arguments(Body)["client_ids"].l

C7_CallsInListOrder ==
    /\ Len(calls) = Len(C7_Ids)
    /\ \A k \in 1..Len(calls) :
          calls[k] = [op |-> "get_interests", args |-> <<C7_Ids[k]>>]

\* C7: an authenticated clients_interests call with valid arguments is
\* answered 200 with as many keys as client_ids has elements,
\* ctx["nclients"] is that number, and get_interests is invoked once per
\* element in list order.
C7_OneKeyPerElement ==
    (Handled /\ HasBody /\ C7_InterestsCall(Body)) =>
        /\ pc = "done" /\ code = OK
        /\ response.kind = "interests"
        /\ Cardinality(DOMAIN response.out) = Len(C7_Ids)
        /\ ctx["nclients"] = Len(C7_Ids)
        /\ C7_CallsInListOrder

\* C7, amended: the response has one key per distinct id (equal ids, 1 and
\* True among them, share a key); nclients and the calls count the elements.
C7_OneKeyPerDistinctId ==
    (Handled /\ HasBody /\ C7_InterestsCall(Body)) =>
        /\ pc = "done" /\ code = OK
        /\ response.kind = "interests"
        /\ DOMAIN response.out = {C7_Ids[k].s : k \in 1..Len(C7_Ids)}
        /\ ctx["nclients"] = Len(C7_Ids)
        /\ C7_CallsInListOrder

\* a list that repeats an id: two calls, nclients 2, one key
C7_Witness ==
    /\ pc = "done" /\ HasBody /\ C7_InterestsCall(Body)
    /\ Len(C7_Ids) = 2 /\ C7_Ids[1] = C7_Ids[2]
    /\ Len(calls) = 2
    /\ Cardinality(DOMAIN response.out) = 1

\* the empty value of each kind
C8_Empty(kind) ==
    CASE kind \in {"CharField", "EmailField"} -> StrV(<<>>)
      [] kind = "ArgumentsField" -> DictV(<<>>)
      [] kind = "ClientIDsField" -> ListV(<<>>)
      [] kind \in {"PhoneField", "DateField", "BirthDayField", "GenderField"} -> NoneV

\* the enumerated values each kind's validate accepts
C8_ShapeValid(kind, v, clock) ==
    CASE kind = "CharField" -> v.t = "str"
      [] kind = "ArgumentsField" -> v.t = "dict"
      [] kind = "EmailField" -> v = StrV(GoodEmail)
      [] kind = "PhoneField" -> v \in {StrV(GoodPhone), IntV(GoodPhone)}
      [] kind = "DateField" -> v \in {StrV(Born1890), StrV(Born2000)}
      [] kind = "BirthDayField" -> v = StrV(Born2000) /\ clock.year <= 2070
      [] kind = "GenderField" -> v \in {IntV(<<"0">>), IntV(<<"1">>), IntV(<<"2">>), BoolV(TRUE)}
      [] kind = "ClientIDsField" -> v = ListV(<<IntV(<<"1">>)>>)

\* C8: Field.__set__, as Request.__init__ drives it, binds by the procedure:
\* an absent key fails iff required or not nullable; a value equal to the
\* kind's empty value fails iff not nullable, whatever required is; any
\* other present value, null included where null is not the empty value, is
\* accepted iff the kind's validate holds and fails as an invalid value
\* otherwise.
C8_BindProcedure ==
    pc = "field" =>
        LET f == bound.field
            raw == bound.value
            r == bound.result
        IN IF ~ bound.present
           THEN ~ r.ok <=> (f.required \/ ~ f.nullable)
           ELSE IF raw = C8_Empty(f.kind)
           THEN ~ r.ok <=> ~ f.nullable
           ELSE /\ r.ok <=> C8_ShapeValid(f.kind, raw, now)
                /\ ~ r.ok => r.err = "invalid"

\* C8, amended: a present null is bound as an absent key is (it fails iff
\* required or not nullable, and is stored as the empty value otherwise);
\* the other two cases are those of a present value that is not null.
C8_BindProcedureNullAsAbsent ==
    pc = "field" =>
        LET f == bound.field
            raw == bound.value
            r == bound.result
        IN IF ~ bound.present \/ raw = NoneV
           THEN /\ ~ r.ok <=> (f.required \/ ~ f.nullable)
                /\ r.ok => r.value = C8_Empty(f.kind)
           ELSE IF raw = C8_Empty(f.kind)
           THEN /\ ~ r.ok <=> ~ f.nullable
                /\ r.ok => r.value = C8_Empty(f.kind)
           ELSE /\ r.ok <=> C8_ShapeValid(f.kind, raw, now)
                /\ r.ok => r.value = raw
                /\ ~ r.ok => r.err = "invalid"

\* a present null is accepted by an optional nullable text field, as ""
C8_Witness ==
    /\ pc = "field"
    /\ bound.field.kind = "CharField" /\ ~ bound.field.required /\ bound.field.nullable
    /\ bound.present /\ bound.value = NoneV
    /\ bound.result.ok /\ bound.result.value = StrV(<<>>)

\* a present null is rejected by a required nullable field whose empty
\* value is null
C8_WitnessRequired ==
    /\ pc = "field"
    /\ bound.field.kind = "DateField" /\ bound.field.required /\ bound.field.nullable
    /\ bound.present /\ bound.value = NoneV
    /\ ~ bound.result.ok

\* C9: with an injective hash and the clock fixed, check_auth on a validated
\* envelope returns true iff the token equals the digest recomputed from the
\* envelope; replacing one character of account, login or token of an
\* envelope that authenticates makes it return false; it never raises for a
\* validated envelope.
C9_CheckAuthExact ==
    /\ pc = "authed" =>
          /\ authed.exc = ""
          /\ authed.value <=> TokenMatches(authed.obj, now)
    /\ pc = "tampered" =>
          /\ authed.exc = ""
          /\ ~ authed.value

\* the arguments validate for the method, and the calls made are its own
C10_ArgumentsValid(b) ==
    \/ /\ IsText(b, "method", ONLINE_SCORE)
       /\ ~ IsText(b, "login", ADMIN_LOGIN)
       /\ ScoreFieldsBind(Arguments(b), now)
       /\ PairPresent(Arguments(b))
       /\ \A k \in 1..Len(calls) : calls[k].op = "get_score"
    \/ /\ C7_InterestsCall(b)
       /\ \A k \in 1..Len(calls) : calls[k].op = "get_interests"

\* C10: get_score and get_interests are invoked only once the envelope
\* validated, check_auth returned true and the argument schema validated; a
\* run ending in 403, 404 or 422 has invoked neither, has not written
\* ctx["nclients"], and leaves ctx["has"] unset (the envelope did not
\* validate) or the empty list.
C10_ExternalCallsOnlyWhenValid ==
    /\ calls # <<>> =>
          /\ HasBody
          /\ Authenticated(Body, now)
          /\ C10_ArgumentsValid(Body)
    /\ (pc = "done" /\ code \in {FORBIDDEN, NOT_FOUND, INVALID_REQUEST}) =>
          /\ calls = <<>>
          /\ "nclients" \notin DOMAIN ctx
          /\ "has" \in DOMAIN ctx => ctx["has"] = <<>>
          /\ "has" \notin DOMAIN ctx => ~ WellFormedEnvelope(Kwargs(request))

\* an authenticated clients_interests call whose arguments are rejected:
\* 422, ctx["has"] the empty list, nothing invoked
C10_Witness ==
    /\ pc = "done" /\ code = INVALID_REQUEST
    /\ HasBody /\ Authenticated(Body, now)
    /\ IsText(Body, "method", CLIENTS_INTERESTS)
    /\ Has(Arguments(Body), "client_ids")
    /\ "has" \in DOMAIN ctx /\ ctx["has"] = <<>>
    /\ calls = <<>>

====
